---------------------------- MODULE Spec2Model ----------------------------
(***************************************************************************)
(* deimos-backend: the scrape-and-extract pipeline and its HTTP handlers.  *)
(*                                                                         *)
(* The repository holds two revisions of the service:                      *)
(*   "v1"  src/services/tiktok.go, routed by main at                       *)
(*         src/unnamed/part_000:177-240 (no context argument);             *)
(*   "v2"  src/unnamed/part_001, routed by main at                         *)
(*         src/unnamed/part_000:96-164 (allocator context passed in).      *)
(* A request is served by one revision; the model carries the revision as  *)
(* an input of the request and follows that revision's code.               *)
(*                                                                         *)
(* Strings are sequences of tokens ("https", ":", "/", "host", ...), so    *)
(* that prefix tests, scheme parsing and concatenation are computed the    *)
(* way the Go code computes them on characters.                            *)
(***************************************************************************)
EXTENDS Integers, Sequences, FiniteSets, TLC

(* ------------------------------ bounds -------------------------------- *)
NumReq == 2        \* request handlers in the model
MaxPage == 3       \* largest page number requested
MaxNodes == 7      \* search_top-item nodes in a rendered search page
MaxDefects == 1    \* item nodes of a page that are not well formed
MaxSources == 4    \* <source> elements under <video>

Req == 1..NumReq

(* ------------------------- program constants -------------------------- *)
ItemsPerPageV1 == 6
ItemsPerPageV2 == 3

ItemsPerPage(rev) == IF rev = "v1" THEN ItemsPerPageV1 ELSE ItemsPerPageV2

(* "https://www.tiktok.com" *)
TikTokOrigin == <<"https", ":", "/", "/", "www.tiktok.com">>

(* ------------------------------ strings ------------------------------- *)
EmptyStr == <<>>

(* a DOM attribute lookup: goquery's Attr returns (value, exists) *)
Attr(v) == [val |-> v, exists |-> TRUE]
NoAttr == [val |-> EmptyStr, exists |-> FALSE]

(* strings.HasPrefix(s, "http"): "http" and "https" are the only tokens    *)
(* that begin with these four letters                                      *)
HasPrefixHttp(s) == Len(s) > 0 /\ s[1] \in {"http", "https"}

(* strings.HasPrefix(s, "data:image") *)
HasPrefixDataImage(s) ==
    Len(s) >= 3 /\ s[1] = "data" /\ s[2] = ":" /\ s[3] = "image"

SchemeTokens == {"http", "https", "data"}

(* net/url parse(rawURL, viaRequest): [ok, scheme].  A control character   *)
(* anywhere, an empty request URI, a leading ':' (missing scheme) and, via *)
(* a request, a scheme-less string that does not start with '/' are        *)
(* errors; a scheme followed by something that is not '/' is an opaque URL *)
(* and parses.                                                             *)
urlparse(s, viaRequest) ==
    LET hasCtl == \E k \in 1..Len(s) : s[k] = "\\x7f"
        hasScheme == Len(s) >= 2 /\ s[1] \in SchemeTokens /\ s[2] = ":"
        rest == IF hasScheme THEN SubSeq(s, 3, Len(s)) ELSE s
        slash == Len(rest) > 0 /\ rest[1] = "/"
    IN  IF hasCtl THEN [ok |-> FALSE, scheme |-> ""]
        ELSE IF s = EmptyStr /\ viaRequest THEN [ok |-> FALSE, scheme |-> ""]
        ELSE IF Len(s) > 0 /\ s[1] = ":" THEN [ok |-> FALSE, scheme |-> ""]
        ELSE IF hasScheme THEN [ok |-> TRUE, scheme |-> s[1]]
        ELSE IF viaRequest /\ ~slash THEN [ok |-> FALSE, scheme |-> ""]
        ELSE [ok |-> TRUE, scheme |-> ""]

Parse(s) == urlparse(s, FALSE)
ParseRequestURI(s) == urlparse(s, TRUE)

(* v2: scheme is http or https, and the string is no inline image *)
isValidThumbnailURL(thumbnail) ==
    LET parsedURL == Parse(thumbnail)
    IN  /\ parsedURL.ok
        /\ parsedURL.scheme \in {"http", "https"}
        /\ ~HasPrefixDataImage(thumbnail)

(* v1: anything ParseRequestURI accepts *)
validThumbnailV1(thumbnail) == ParseRequestURI(thumbnail).ok

(* ------------------------------ markup -------------------------------- *)
(* An item node of the rendered search page: the href of its first <a>,    *)
(* the src of its first <img>, and, read from its next sibling, the        *)
(* caption text and the href of the user link.                             *)
VideoPath(j) == <<"/", "@u", "/", "video", "/", ToString(j)>>
UserPath(j) == <<"/", "@u" \o ToString(j)>>
CdnThumb(j) == <<"https", ":", "/", "/", "cdn.tiktok.com", "/", ToString(j)>>

DefectKinds ==
    {"href-absent", "href-absolute", "img-absent", "img-data", "img-path",
     "img-badscheme", "user-absent"}

ItemNode(j, d) ==
    [href |-> CASE d = "href-absent" -> NoAttr
                [] d = "href-absolute" -> Attr(TikTokOrigin \o VideoPath(j))
                [] OTHER -> Attr(VideoPath(j)),
     img |-> CASE d = "img-absent" -> NoAttr
               [] d = "img-data" -> Attr(<<"data", ":", "image", "/gif;base64,R0lG">>)
               [] d = "img-path" -> Attr(<<"/", "static", "/", "t.jpg">>)
               [] d = "img-badscheme" -> Attr(<<":", "/", "/", "cdn">>)
               [] OTHER -> Attr(CdnThumb(j)),
     caption |-> <<"caption", ToString(j)>>,
     user |-> IF d = "user-absent" THEN NoAttr ELSE Attr(UserPath(j))]

(* the rendered search pages: n item nodes in document order, at most      *)
(* MaxDefects of them not well formed                                      *)
DefectMaps(n) ==
    UNION {{[j \in 1..n |-> IF j \in P THEN g[j] ELSE "none"] : g \in [P -> DefectKinds]} :
             P \in {Q \in SUBSET (1..n) : Cardinality(Q) <= MaxDefects}}

SearchPages ==
    UNION {{[j \in 1..n |-> ItemNode(j, f[j])] : f \in DefectMaps(n)} : n \in 0..MaxNodes}

(* ----------------------------- extraction ------------------------------ *)
Video(url, thumbnail, caption, user) ==
    [url |-> url, thumbnail |-> thumbnail, caption |-> caption, user |-> user]

(* v2: the callback of doc.Find(...).Each for one item node s: the record  *)
(* it appends, as a sequence of zero or one records                        *)
extractNode(s, tiktokBaseURL) ==
    IF ~s.href.exists THEN <<>>
    ELSE IF ~s.img.exists \/ ~isValidThumbnailURL(s.img.val) THEN <<>>
    ELSE IF ~s.user.exists THEN <<>>
    ELSE <<Video(IF HasPrefixHttp(s.href.val) THEN s.href.val
                 ELSE tiktokBaseURL \o s.href.val,
                 s.img.val, s.caption, tiktokBaseURL \o s.user.val)>>

RECURSIVE extractFrom(_, _, _)
extractFrom(htmlContent, tiktokBaseURL, k) ==
    IF k > Len(htmlContent) THEN <<>>
    ELSE extractNode(htmlContent[k], tiktokBaseURL)
            \o extractFrom(htmlContent, tiktokBaseURL, k + 1)

extractVideosFromHTML(htmlContent, tiktokBaseURL) ==
    extractFrom(htmlContent, tiktokBaseURL, 1)

(* v1: the callback of the extraction loop inside SearchTikTokVideos, with *)
(* the records found so far                                                *)
extractNodeV1(videos, s, page) ==
    IF Len(videos) >= page * ItemsPerPageV1 THEN videos
    ELSE IF ~s.href.exists THEN videos
    ELSE IF ~s.img.exists THEN videos
    ELSE IF ~validThumbnailV1(s.img.val) THEN videos
    ELSE IF ~s.user.exists THEN videos
    ELSE Append(videos,
                Video(IF HasPrefixHttp(s.href.val) THEN s.href.val
                      ELSE TikTokOrigin \o s.href.val,
                      s.img.val, s.caption, TikTokOrigin \o s.user.val))

RECURSIVE extractLoopV1(_, _, _, _)
extractLoopV1(videos, htmlContent, page, k) ==
    IF k > Len(htmlContent) THEN videos
    ELSE extractLoopV1(extractNodeV1(videos, htmlContent[k], page), htmlContent, page, k + 1)

extractV1(htmlContent, page) == extractLoopV1(<<>>, htmlContent, page, 1)

(* ------------------------------ results -------------------------------- *)
NoResult == [kind |-> "none", val |-> <<>>, err |-> "", code |-> 0]
Ok(v) == [kind |-> "ok", val |-> v, err |-> "", code |-> 0]
Err(e) == [kind |-> "err", val |-> <<>>, err |-> e, code |-> 0]
Panic(e) == [kind |-> "panic", val |-> <<>>, err |-> e, code |-> 0]

(* v1: the page window, with the range check *)
sliceV1(videos, page) ==
    LET start == (page - 1) * ItemsPerPageV1
        end0 == start + ItemsPerPageV1
        end == IF end0 > Len(videos) THEN Len(videos) ELSE end0
    IN  IF start >= Len(videos) THEN Err("no more data available")
        ELSE Ok(SubSeq(videos, start + 1, end))

(* v2: the page window; videos[start:end] panics when start > end *)
sliceV2(videos, page) ==
    LET start == (page - 1) * ItemsPerPageV2
        end0 == start + ItemsPerPageV2
        end == IF end0 > Len(videos) THEN Len(videos) ELSE end0
    IN  IF start > end THEN Panic("slice bounds out of range")
        ELSE Ok(SubSeq(videos, start + 1, end))

(* a variant of selectSource that takes the second source (i == 1) *)
selectSourceSecond(htmlContent) ==
    LET videoUrl == IF Len(htmlContent) >= 2 THEN htmlContent[2].val ELSE EmptyStr
    IN  IF videoUrl = EmptyStr THEN Err("video source not found")
        ELSE Ok(videoUrl)

(* v1, v2: the third <source> under <video>, in document order.  Attr's    *)
(* second result is dropped, so an absent src and src="" both read as ""   *)
selectSource(htmlContent) ==
    LET videoUrl == IF Len(htmlContent) >= 3 THEN htmlContent[3].val ELSE EmptyStr
    IN  IF videoUrl = EmptyStr THEN Err("video source not found")
        ELSE Ok(videoUrl)

(* the rendered video pages: the src attributes of the <source> elements   *)
SrcA == <<"https", ":", "/", "/", "v16.tiktokcdn.com", "/", "a.mp4">>
SrcB == <<"https", ":", "/", "/", "v16.tiktokcdn.com", "/", "b.mp4">>
SourceAttrs == {NoAttr, Attr(EmptyStr), Attr(SrcA), Attr(SrcB)}
SourcePages == UNION {[1..n -> SourceAttrs] : n \in 0..MaxSources}

(* the url query parameter of /get-video-url and /proxy-video *)
VideoPageUrl == TikTokOrigin \o VideoPath(1)
UrlParams == {EmptyStr, VideoPageUrl, <<"/", "@u">>, <<"not-a-url">>, <<"http", ":", "/", "/", "a", "\\x7f">>}

(* the page query parameter of /search: strconv.Atoi fails on "abc" and on *)
(* the empty default never (the default is "1")                            *)
PageParams == {"absent", "abc"} \cup {ToString(n) : n \in -1..MaxPage}
Atoi(str) ==
    IF \E n \in -1..MaxPage : ToString(n) = str
    THEN [ok |-> TRUE, n |-> CHOOSE n \in -1..MaxPage : ToString(n) = str]
    ELSE [ok |-> FALSE, n |-> 0]
ParsePage(pageParam) ==
    LET parsed == Atoi(IF pageParam = "absent" THEN "1" ELSE pageParam)
    IN  IF ~parsed.ok \/ parsed.n < 1 THEN 1 ELSE parsed.n

Revs == {"v1", "v2"}

(* upstream answers to the relay *)
Statuses == {200, 201, 206, 304, 404, 503}
Bodies == {<<>>, <<"b1", "b2">>}

(* ------------------------------- state --------------------------------- *)
VARIABLES
    pc,           \* per request: idle, run, inflight, hung, after, done
    call,         \* per request: the handler's inputs and the page the site renders
    i,            \* per request: the loop counter of the attempt loop
    htmlContent,  \* per request: the markup captured by the last successful Run
    videos,       \* per request: the accumulator
    sess,         \* per request: the browser session it holds (0: none)
    live,         \* the browser sessions that exist
    acquired,     \* per request: sessions created by this call
    released,     \* per request: session releases run by this call
    deadline,     \* per request: none, armed, expired, stopped
    errlog,       \* per request: error lines the service logged
    result,       \* per request: what the service function returned
    status,       \* per request: the HTTP status answered (0: not answered)
    sent          \* per request: upstream requests sent by the relay

vars == <<pc, call, i, htmlContent, videos, sess, live, acquired, released,
          deadline, errlog, result, status, sent>>

NoCall == [ep |-> "none", rev |-> "v1", page |-> 1, base |-> EmptyStr,
           doc |-> <<>>, url |-> EmptyStr]

Init ==
    /\ pc = [r \in Req |-> "idle"]
    /\ call = [r \in Req |-> NoCall]
    /\ i = [r \in Req |-> 0]
    /\ htmlContent = [r \in Req |-> <<>>]
    /\ videos = [r \in Req |-> <<>>]
    /\ sess = [r \in Req |-> 0]
    /\ live = {}
    /\ acquired = [r \in Req |-> 0]
    /\ released = [r \in Req |-> 0]
    /\ deadline = [r \in Req |-> "none"]
    /\ errlog = [r \in Req |-> 0]
    /\ result = [r \in Req |-> NoResult]
    /\ status = [r \in Req |-> 0]
    /\ sent = [r \in Req |-> 0]

(* ------------------------------ sessions ------------------------------- *)
(* a variant of NewContext that hands every call the one browser of the    *)
(* parent context                                                          *)
NewContextShared(liveSessions) == 1

(* chromedp.NewContext on a parent that holds no browser (the background   *)
(* context in v1, the allocator context in v2): the first Run allocates a  *)
(* browser of its own.  The session is named by the least id not in use.   *)
NewContext(liveSessions) ==
    CHOOSE s \in 1..(Cardinality(liveSessions) + 1) :
        /\ s \notin liveSessions
        /\ \A t \in 1..(s - 1) : t \in liveSessions

(* the handlers of main: 200 on success, 500 on any error; gin.Default()   *)
(* installs Recovery, which answers a panic with 500                       *)
HandlerStatus(res) == IF res.kind = "ok" THEN 200 ELSE 500

(* a variant of DeferredCancel: cancel() is called at the end of the       *)
(* function instead of being deferred, so an early error return skips it   *)
CancelAtEndOnly(r) ==
    IF pc[r] = "inflight" /\ call[r].ep = "search"
    THEN UNCHANGED <<released, live, sess>>
    ELSE /\ released' = [released EXCEPT ![r] = @ + 1]
         /\ live' = live \ {sess[r]}
         /\ sess' = [sess EXCEPT ![r] = 0]

(* the deferred calls of a service function, then the handler's answer:    *)
(* defer cancel() releases the session, defer timeoutCancel() stops the    *)
(* timer                                                                   *)
DeferredCancel(r) ==
    /\ released' = [released EXCEPT ![r] = @ + 1]
    /\ live' = live \ {sess[r]}
    /\ sess' = [sess EXCEPT ![r] = 0]

Return(r, res) ==
    /\ DeferredCancel(r)
    /\ deadline' = [deadline EXCEPT ![r] = IF @ = "armed" THEN "stopped" ELSE @]
    /\ result' = [result EXCEPT ![r] = res]
    /\ status' = [status EXCEPT ![r] = HandlerStatus(res)]
    /\ pc' = [pc EXCEPT ![r] = "done"]

(* ------------------------- SearchTikTokVideos -------------------------- *)
(* v1 runs scrollsNeeded + 1 navigations, v2 at most page attempts *)
scrollsNeeded(page) == (page * ItemsPerPageV1) \div ItemsPerPageV1

LoopCond(r) ==
    IF call[r].rev = "v1" THEN i[r] <= scrollsNeeded(call[r].page)
    ELSE i[r] < call[r].page

(* the tiktokBaseURL argument of v2; v1 has the origin built in *)
Bases(rev) == {TikTokOrigin}

(* the handler of /search parses the page, calls the service, which        *)
(* creates its session (and, in v2, arms the 90 s timeout)                 *)
StartSearch(r, pageParams, docs) ==
    /\ pc[r] = "idle"
    /\ \E rev \in Revs, pageParam \in pageParams, doc \in docs :
         \E base \in Bases(rev) :
            call' = [call EXCEPT ![r] =
                        [ep |-> "search", rev |-> rev, page |-> ParsePage(pageParam),
                         base |-> base, doc |-> doc, url |-> EmptyStr]]
    /\ LET s == NewContext(live)
       IN  /\ sess' = [sess EXCEPT ![r] = s]
           /\ live' = live \cup {s}
    /\ acquired' = [acquired EXCEPT ![r] = 1]
    /\ deadline' = [deadline EXCEPT ![r] = IF call'[r].rev = "v2" THEN "armed" ELSE "none"]
    /\ pc' = [pc EXCEPT ![r] = "run"]
    /\ UNCHANGED <<i, htmlContent, videos, released, errlog, result, status, sent>>

(* chromedp.Run is called for one more attempt *)
SearchRun(r) ==
    /\ call[r].ep = "search"
    /\ pc[r] = "run"
    /\ LoopCond(r)
    /\ pc' = [pc EXCEPT ![r] = "inflight"]
    /\ UNCHANGED <<call, i, htmlContent, videos, sess, live, acquired, released,
                   deadline, errlog, result, status, sent>>

(* the attempt's Run returns nil: the markup is captured; v2 extracts and  *)
(* appends, and leaves the loop once it holds page * itemsPerPage records  *)
SearchRunOK(r) ==
    /\ call[r].ep = "search"
    /\ pc[r] = "inflight"
    /\ deadline[r] # "expired"
    /\ htmlContent' = [htmlContent EXCEPT ![r] = call[r].doc]
    /\ i' = [i EXCEPT ![r] = @ + 1]
    /\ IF call[r].rev = "v1"
       THEN /\ videos' = videos
            /\ pc' = [pc EXCEPT ![r] = "run"]
       ELSE /\ videos' = [videos EXCEPT ![r] =
                            @ \o extractVideosFromHTML(call[r].doc, call[r].base)]
            /\ pc' = [pc EXCEPT ![r] =
                        IF Len(videos'[r]) >= ItemsPerPageV2 * call[r].page
                        THEN "after" ELSE "run"]
    /\ UNCHANGED <<call, sess, live, acquired, released, deadline, errlog,
                   result, status, sent>>

(* the attempt's Run returns an error: v1 logs and returns it, v2 logs and *)
(* continues with the next attempt                                         *)
SearchRunFailed(r, e) ==
    /\ errlog' = [errlog EXCEPT ![r] = @ + 1]
    /\ IF call[r].rev = "v1"
       THEN /\ Return(r, Err(e))
            /\ UNCHANGED <<call, i, htmlContent, videos, acquired, sent>>
       ELSE /\ i' = [i EXCEPT ![r] = @ + 1]
            /\ pc' = [pc EXCEPT ![r] = "run"]
            /\ UNCHANGED <<call, htmlContent, videos, sess, live, acquired,
                           released, deadline, result, status, sent>>

(* navigation fails (name resolution, connection, ...) *)
SearchRunErr(r) ==
    /\ call[r].ep = "search"
    /\ pc[r] = "inflight"
    /\ deadline[r] # "expired"
    /\ SearchRunFailed(r, "navigation failed")

(* the timeout context is done: Run returns context.DeadlineExceeded *)
SearchRunTimeout(r) ==
    /\ call[r].ep = "search"
    /\ pc[r] \in {"inflight", "hung"}
    /\ deadline[r] = "expired"
    /\ SearchRunFailed(r, "context deadline exceeded")

(* after the loop: v1 extracts from the last markup; both slice the page   *)
(* window and return                                                       *)
SearchResult(r) ==
    IF call[r].rev = "v1"
    THEN sliceV1(extractV1(htmlContent[r], call[r].page), call[r].page)
    ELSE sliceV2(videos[r], call[r].page)

SearchReturn(r) ==
    /\ call[r].ep = "search"
    /\ pc[r] = "after" \/ (pc[r] = "run" /\ ~LoopCond(r))
    /\ videos' = [videos EXCEPT ![r] =
                    IF call[r].rev = "v1" THEN extractV1(htmlContent[r], call[r].page)
                    ELSE @]
    /\ Return(r, SearchResult(r))
    /\ UNCHANGED <<call, i, htmlContent, acquired, errlog, sent>>

(* a step of Run that never completes (the awaited element never becomes   *)
(* visible, the page never finishes loading, the upstream never answers)   *)
Hang(r) ==
    /\ pc[r] = "inflight"
    /\ pc' = [pc EXCEPT ![r] = "hung"]
    /\ UNCHANGED <<call, i, htmlContent, videos, sess, live, acquired, released,
                   deadline, errlog, result, status, sent>>

(* the timer of context.WithTimeout fires while a Run is in flight or     *)
(* still to come (once the loop is over the timer has no effect: it is     *)
(* stopped by the deferred timeoutCancel)                                  *)
DeadlineExpires(r) ==
    /\ deadline[r] = "armed"
    /\ pc[r] \in {"inflight", "hung"} \/ (pc[r] = "run" /\ LoopCond(r))
    /\ deadline' = [deadline EXCEPT ![r] = "expired"]
    /\ UNCHANGED <<pc, call, i, htmlContent, videos, sess, live, acquired,
                   released, errlog, result, status, sent>>

(* the handler has answered; the next request arrives on a fresh handler   *)
HandlerDone(r) ==
    /\ pc[r] = "done"
    /\ pc' = [pc EXCEPT ![r] = "idle"]
    /\ call' = [call EXCEPT ![r] = NoCall]
    /\ i' = [i EXCEPT ![r] = 0]
    /\ htmlContent' = [htmlContent EXCEPT ![r] = <<>>]
    /\ videos' = [videos EXCEPT ![r] = <<>>]
    /\ acquired' = [acquired EXCEPT ![r] = 0]
    /\ released' = [released EXCEPT ![r] = 0]
    /\ deadline' = [deadline EXCEPT ![r] = "none"]
    /\ errlog' = [errlog EXCEPT ![r] = 0]
    /\ result' = [result EXCEPT ![r] = NoResult]
    /\ status' = [status EXCEPT ![r] = 0]
    /\ sent' = [sent EXCEPT ![r] = 0]
    /\ UNCHANGED <<sess, live>>

(* ----------------------------- GetVideoUrl ----------------------------- *)
(* the handler of /get-video-url: 400 without a url; the service rejects a *)
(* url ParseRequestURI refuses before it creates a session; neither        *)
(* revision sets a timeout                                                 *)
StartGetVideoUrl(r, revs, urls, docs) ==
    /\ pc[r] = "idle"
    /\ \E rev \in revs, url \in urls, doc \in docs :
         /\ call' = [call EXCEPT ![r] =
                        [ep |-> "resolve", rev |-> rev, page |-> 1,
                         base |-> EmptyStr, doc |-> doc, url |-> url]]
         /\ IF url = EmptyStr
            THEN /\ status' = [status EXCEPT ![r] = 400]
                 /\ pc' = [pc EXCEPT ![r] = "done"]
                 /\ UNCHANGED <<sess, live, acquired, result>>
            ELSE IF ~ParseRequestURI(url).ok
            THEN /\ result' = [result EXCEPT ![r] = Err("invalid video URL")]
                 /\ status' = [status EXCEPT ![r] = HandlerStatus(result'[r])]
                 /\ pc' = [pc EXCEPT ![r] = "done"]
                 /\ UNCHANGED <<sess, live, acquired>>
            ELSE /\ LET s == NewContext(live)
                    IN  /\ sess' = [sess EXCEPT ![r] = s]
                        /\ live' = live \cup {s}
                 /\ acquired' = [acquired EXCEPT ![r] = 1]
                 /\ pc' = [pc EXCEPT ![r] = "run"]
                 /\ UNCHANGED <<result, status>>
    /\ UNCHANGED <<i, htmlContent, videos, released, deadline, errlog, sent>>

GetVideoUrlRun(r) ==
    /\ call[r].ep = "resolve"
    /\ pc[r] = "run"
    /\ pc' = [pc EXCEPT ![r] = "inflight"]
    /\ UNCHANGED <<call, i, htmlContent, videos, sess, live, acquired, released,
                   deadline, errlog, result, status, sent>>

(* Run returns nil: the markup is captured, the third source selected *)
GetVideoUrlRunOK(r) ==
    /\ call[r].ep = "resolve"
    /\ pc[r] = "inflight"
    /\ htmlContent' = [htmlContent EXCEPT ![r] = call[r].doc]
    /\ Return(r, selectSource(call[r].doc))
    /\ UNCHANGED <<call, i, videos, acquired, errlog, sent>>

(* Run returns an error: it is returned as it is *)
GetVideoUrlRunErr(r) ==
    /\ call[r].ep = "resolve"
    /\ pc[r] = "inflight"
    /\ Return(r, Err("navigation failed"))
    /\ UNCHANGED <<call, i, htmlContent, videos, acquired, errlog, sent>>

(* --------------------------- ProxyVideoContent ------------------------- *)

ErrStatus(code) == [kind |-> "err", val |-> <<>>, err |-> "received status code", code |-> code]

(* a variant of proxyResult that accepts every 2xx status *)
proxyResultAny2xx(statusCode, body, readOK) ==
    IF statusCode < 200 \/ statusCode > 299 THEN ErrStatus(statusCode)
    ELSE IF readOK THEN Ok(body)
    ELSE Err("read failed")

(* what ProxyVideoContent returns for an upstream response *)
proxyResult(statusCode, body, readOK) ==
    IF statusCode # 200 THEN ErrStatus(statusCode)
    ELSE IF readOK THEN Ok(body)
    ELSE Err("read failed")

(* the handler of /proxy-video: 400 without a url; http.NewRequest fails   *)
(* on a url that does not parse                                            *)
StartProxyVideo(r, revs, urls) ==
    /\ pc[r] = "idle"
    /\ \E rev \in revs, url \in urls :
         /\ call' = [call EXCEPT ![r] =
                        [ep |-> "relay", rev |-> rev, page |-> 1,
                         base |-> EmptyStr, doc |-> <<>>, url |-> url]]
         /\ IF url = EmptyStr
            THEN /\ status' = [status EXCEPT ![r] = 400]
                 /\ pc' = [pc EXCEPT ![r] = "done"]
                 /\ UNCHANGED result
            ELSE IF ~Parse(url).ok
            THEN /\ result' = [result EXCEPT ![r] = Err("parse url")]
                 /\ status' = [status EXCEPT ![r] = HandlerStatus(result'[r])]
                 /\ pc' = [pc EXCEPT ![r] = "done"]
            ELSE /\ pc' = [pc EXCEPT ![r] = "run"]
                 /\ UNCHANGED <<result, status>>
    /\ UNCHANGED <<i, htmlContent, videos, sess, live, acquired, released,
                   deadline, errlog, sent>>

(* client.Do sends the request *)
ProxyDo(r) ==
    /\ call[r].ep = "relay"
    /\ pc[r] = "run"
    /\ sent' = [sent EXCEPT ![r] = @ + 1]
    /\ pc' = [pc EXCEPT ![r] = "inflight"]
    /\ UNCHANGED <<call, i, htmlContent, videos, sess, live, acquired, released,
                   deadline, errlog, result, status>>

(* the upstream answers; the body is read to its end or the read fails *)
ProxyResponse(r, statuses, bodies) ==
    /\ call[r].ep = "relay"
    /\ pc[r] = "inflight"
    /\ \E statusCode \in statuses, body \in bodies, readOK \in BOOLEAN :
         /\ htmlContent' = [htmlContent EXCEPT ![r] = <<statusCode, body, readOK>>]
         /\ result' = [result EXCEPT ![r] = proxyResult(statusCode, body, readOK)]
    /\ status' = [status EXCEPT ![r] = HandlerStatus(result'[r])]
    /\ pc' = [pc EXCEPT ![r] = "done"]
    /\ UNCHANGED <<call, i, videos, sess, live, acquired, released, deadline,
                   errlog, sent>>

(* client.Do returns an error (connection refused, reset, ...) *)
ProxyDoErr(r) ==
    /\ call[r].ep = "relay"
    /\ pc[r] = "inflight"
    /\ result' = [result EXCEPT ![r] = Err("transport")]
    /\ status' = [status EXCEPT ![r] = HandlerStatus(result'[r])]
    /\ pc' = [pc EXCEPT ![r] = "done"]
    /\ UNCHANGED <<call, i, htmlContent, videos, sess, live, acquired, released,
                   deadline, errlog, sent>>

Step(r) ==
    \/ SearchRun(r)
    \/ SearchRunOK(r)
    \/ SearchRunErr(r)
    \/ SearchRunTimeout(r)
    \/ SearchReturn(r)
    \/ GetVideoUrlRun(r)
    \/ GetVideoUrlRunOK(r)
    \/ GetVideoUrlRunErr(r)
    \/ ProxyDo(r)
    \/ ProxyDoErr(r)
    \/ Hang(r)
    \/ DeadlineExpires(r)
    \/ HandlerDone(r)

(* one request at a time, over every page the site may render *)
Next ==
    \/ StartSearch(1, PageParams, SearchPages)
    \/ StartGetVideoUrl(1, Revs, UrlParams, SourcePages)
    \/ StartProxyVideo(1, Revs, UrlParams)
    \/ ProxyResponse(1, Statuses, Bodies)
    \/ Step(1)

Spec == Init /\ [][Next]_vars

(* NumReq requests served concurrently by the v2 router, each on one fixed *)
(* page of the site                                                        *)
ConcSearchPages == {[j \in 1..ItemsPerPageV2 |-> ItemNode(j, "none")]}
ConcSourcePages == {[j \in 1..3 |-> Attr(SrcA)]}
ConcUrlParams == {EmptyStr, VideoPageUrl, <<"not-a-url">>}

NextConc ==
    \E r \in Req :
        \/ StartSearch(r, {"absent"}, ConcSearchPages)
        \/ StartGetVideoUrl(r, {"v2"}, ConcUrlParams, ConcSourcePages)
        \/ StartProxyVideo(r, {"v2"}, ConcUrlParams)
        \/ ProxyResponse(r, {200, 503}, {<<"b1", "b2">>})
        \/ Step(r)

SpecConc == Init /\ [][NextConc]_vars

(* ------------------------------ properties ---------------------------- *)
Min(a, b) == IF a < b THEN a ELSE b

(* the valid records the rendered page of request r yields, in document    *)
(* order, as the request's revision extracts them (v1 without its cap)     *)
Records(r) ==
    IF call[r].rev = "v1" THEN extractV1(call[r].doc, Len(call[r].doc) + 1)
    ELSE extractVideosFromHTML(call[r].doc, call[r].base)

WindowStart(r) == (call[r].page - 1) * ItemsPerPage(call[r].rev)

SearchDone(r) == call[r].ep = "search" /\ pc[r] = "done"

(* what the attempts so far have put at the call's disposal: the           *)
(* accumulator in v2, the records of the captured markup in v1             *)
Accumulated(r) ==
    IF call[r].rev = "v1" THEN extractV1(htmlContent[r], call[r].page)
    ELSE videos[r]

(* C1: a search whose attempts all succeeded, on a page that yields k      *)
(* valid records, returns min(itemsPerPage, k - start) records when        *)
(* start < k, and the "no more data" error when start >= k (never an empty *)
(* success, a wrapped slice or a panic).                                   *)
C1_PageSize ==
    \A r \in Req :
        (SearchDone(r) /\ errlog[r] = 0) =>
            LET k == Len(Records(r))
                start == WindowStart(r)
            IN  IF start >= k
                THEN result[r].kind = "err" /\ result[r].err = "no more data available"
                ELSE /\ result[r].kind = "ok"
                     /\ Len(result[r].val) = Min(ItemsPerPage(call[r].rev), k - start)

(* C2: a call never releases more sessions than it acquired, and when it   *)
(* has returned, by any exit path, it has released exactly the session it  *)
(* acquired: once, and the session no longer exists.                       *)
C2_ReleasedOnce ==
    /\ \A r \in Req :
        /\ released[r] <= acquired[r]
        /\ acquired[r] <= 1
        /\ pc[r] = "done" => (released[r] = acquired[r] /\ sess[r] = 0)
        /\ (pc[r] \in {"run", "inflight", "hung", "after"}
              /\ call[r].ep \in {"search", "resolve"}) =>
                (acquired[r] = 1 /\ released[r] = 0 /\ sess[r] \in live)
    /\ live = {sess[r] : r \in Req} \ {0}

(* a search that timed out in the middle of a navigation and then left by  *)
(* the out-of-range slice panic, its session released once                 *)
C2_Witness ==
    \E r \in Req :
        /\ SearchDone(r)
        /\ deadline[r] = "expired"
        /\ result[r].kind = "panic"
        /\ acquired[r] = 1
        /\ released[r] = 1

(* C3: an attempt of a search that fails when the earlier attempts have    *)
(* already put a usable page window at the call's disposal does not end    *)
(* the call with an error: the failure is logged and the loop goes on.     *)
C3_FailedAttemptNotFatal ==
    [][\A r \in Req :
         (/\ call[r].ep = "search"
          /\ pc[r] \in {"inflight", "hung"}
          /\ Len(Accumulated(r)) > WindowStart(r)
          /\ errlog'[r] = errlog[r] + 1)
         => (pc'[r] = "run" /\ result'[r].kind # "err")]_vars

(* C4: a search or resolve step that never completes is covered by a       *)
(* deadline, and a call whose deadline expired before its last step ends   *)
(* with the timeout error.                                                 *)
C4_BoundedDeadline ==
    \A r \in Req :
        call[r].ep \in {"search", "resolve"} =>
            /\ pc[r] = "hung" => deadline[r] \in {"armed", "expired"}
            /\ (pc[r] = "done" /\ deadline[r] = "expired") =>
                  (result[r].kind = "err" /\ result[r].err = "context deadline exceeded")

(* a resolve call that captured the page markup *)
Resolved(r) ==
    /\ call[r].ep = "resolve"
    /\ pc[r] = "done"
    /\ acquired[r] = 1
    /\ result[r].err # "navigation failed"

(* C5 as stated: with at least three sources and a src attribute on the    *)
(* third, resolve returns that src; otherwise it fails with not-found.     *)
C5_ThirdSourceHasSrc ==
    \A r \in Req :
        Resolved(r) =>
            LET doc == call[r].doc
            IN  IF Len(doc) >= 3 /\ doc[3].exists
                THEN result[r] = Ok(doc[3].val)
                ELSE result[r] = Err("video source not found")

(* C5, amended: with at least three sources and a non-empty src on the     *)
(* third, resolve returns exactly that src, whatever the other sources     *)
(* are; with fewer than three sources, or a third source whose src is      *)
(* absent or empty, it fails with not-found.                               *)
C5_ThirdSource ==
    \A r \in Req :
        Resolved(r) =>
            LET doc == call[r].doc
            IN  IF Len(doc) >= 3 /\ doc[3].exists /\ doc[3].val # EmptyStr
                THEN result[r] = Ok(doc[3].val)
                ELSE result[r] = Err("video source not found")

(* resolve returned the third src of a page whose first two sources carry  *)
(* another src                                                             *)
C5_Witness ==
    \E r \in Req :
        /\ Resolved(r)
        /\ Len(call[r].doc) >= 3
        /\ call[r].doc[1] = Attr(SrcA)
        /\ call[r].doc[2] = Attr(SrcA)
        /\ call[r].doc[3] = Attr(SrcB)
        /\ result[r] = Ok(SrcB)

(* an absolute http or https URL *)
AbsoluteHttp(t) == Len(t) >= 2 /\ t[1] \in {"http", "https"} /\ t[2] = ":"

(* an item node that carries everything a record needs *)
CompleteNode(s) ==
    /\ s.href.exists
    /\ s.img.exists /\ AbsoluteHttp(s.img.val) /\ ~HasPrefixDataImage(s.img.val)
    /\ s.user.exists

(* C6: every record a search holds has a non-empty url, a thumbnail that   *)
(* is an absolute http(s) URL and no data URI, and a non-empty user        *)
(* profile URL, and was made from an item node that lacks none of href,    *)
(* valid thumbnail and user link.                                          *)
C6_RecordsComplete ==
    \A r \in Req :
        call[r].ep = "search" =>
            \A k \in 1..Len(videos[r]) :
                LET v == videos[r][k]
                IN  /\ v.url # EmptyStr
                    /\ AbsoluteHttp(v.thumbnail)
                    /\ ~HasPrefixDataImage(v.thumbnail)
                    /\ v.user # EmptyStr
                    /\ \E j \in 1..Len(call[r].doc) :
                          /\ CompleteNode(call[r].doc[j])
                          /\ v.thumbnail = call[r].doc[j].img.val
                          /\ v.caption = call[r].doc[j].caption

(* the per-request state *)
Local(r) ==
    <<pc[r], call[r], i[r], htmlContent[r], videos[r], sess[r], acquired[r],
      released[r], deadline[r], errlog[r], result[r], status[r], sent[r]>>

Driving(r) ==
    call[r].ep \in {"search", "resolve"} /\ pc[r] \in {"run", "inflight", "hung", "after"}

C8_StatusMapping ==
    \A r \in Req :
        pc[r] = "done" =>
            LET invalidInput ==
                    \/ call[r].ep \in {"resolve", "relay"} /\ call[r].url = EmptyStr
                    \/ call[r].ep = "resolve" /\ result[r].err = "invalid video URL"
            IN  IF invalidInput THEN status[r] = 400
                ELSE IF result[r].kind = "ok" THEN status[r] = 200
                ELSE status[r] = 500

(* a relay call that received an upstream response *)
Relayed(r) == call[r].ep = "relay" /\ pc[r] = "done" /\ Len(htmlContent[r]) = 3

(* C9 as stated: the relay fails with the status code exactly when the     *)
(* response is not 2xx, returns the full body of every 2xx response whose  *)
(* body can be read, and sends one request.                                *)
C9_RelayNon2xx ==
    \A r \in Req :
        Relayed(r) =>
            LET statusCode == htmlContent[r][1]
                body == htmlContent[r][2]
                readOK == htmlContent[r][3]
                is2xx == statusCode >= 200 /\ statusCode <= 299
            IN  /\ (result[r] = ErrStatus(statusCode)) <=> ~is2xx
                /\ (is2xx /\ readOK) => result[r] = Ok(body)
                /\ sent[r] = 1

(* C9, amended: the relay fails with an error that carries the status code *)
(* exactly when the upstream status is not 200 (201, 204, 206 included);   *)
(* for a 200 response it returns the full body when the body is read to    *)
(* its end and the read error otherwise; a call sends at most one          *)
(* request, and exactly one when it received a response.                   *)
C9_RelayNot200 ==
    \A r \in Req :
        /\ call[r].ep = "relay" => sent[r] <= 1
        /\ Relayed(r) =>
            LET statusCode == htmlContent[r][1]
                body == htmlContent[r][2]
                readOK == htmlContent[r][3]
            IN  /\ (result[r] = ErrStatus(statusCode)) <=> statusCode # 200
                /\ (statusCode = 200 /\ readOK) => result[r] = Ok(body)
                /\ (statusCode = 200 /\ ~readOK) => result[r] = Err("read failed")
                /\ sent[r] = 1

(* the relay refused a 206 response with the status code, after one        *)
(* request                                                                 *)
C9_Witness ==
    \E r \in Req :
        /\ Relayed(r)
        /\ htmlContent[r][1] = 206
        /\ result[r] = ErrStatus(206)
        /\ sent[r] = 1

(* C10: a successful search whose attempts all succeeded, on a page whose  *)
(* records have pairwise distinct urls, returns the records at positions   *)
(* start .. start + itemsPerPage - 1 of the document order (so that two    *)
(* page numbers never share a record).                                     *)
C10_PageWindow ==
    \A r \in Req :
        (/\ SearchDone(r)
         /\ errlog[r] = 0
         /\ result[r].kind = "ok"
         /\ \A a, b \in 1..Len(Records(r)) :
                a # b => Records(r)[a].url # Records(r)[b].url)
        => result[r].val =
              SubSeq(Records(r), WindowStart(r) + 1,
                     Min(WindowStart(r) + ItemsPerPage(call[r].rev), Len(Records(r))))

=============================================================================
